---------------------------- MODULE Spec2Model ----------------------------
(***************************************************************************)
(* GPA / CGPA calculator (src/app.py).                                     *)
(*                                                                         *)
(* The store st.session_state.semesters_data is an insertion-ordered dict  *)
(* from "Semester N" to a list of course dicts.  It is modelled as a       *)
(* sequence of entries [sem_name |-> N, courses_list |-> value], in dict   *)
(* iteration order.                                                        *)
(*                                                                         *)
(* Python values.  A float is the integer number of quarters it holds      *)
(* (3.0 is 12, 0.25 is 1): every input of the model is a multiple of 0.25  *)
(* of small magnitude, so every sum and product of the code is exact in    *)
(* binary floating point, and a quotient lies on a rounding tie only when  *)
(* the tie is itself a binary fraction (see TiesAreBinary), where Python's *)
(* round() rounds half to even.  A string is the sequence of its           *)
(* characters.  A value read from a dict is a record [k, n, s]: k is its   *)
(* kind ("num", "str", "none", or "absent" for a key the dict lacks), n    *)
(* the float, s the string.  A list element is [dict, f]: dict says        *)
(* whether it is a mapping, f holds the three fields.  A function result   *)
(* is [exc, v]: exc names the exception that escaped ("" when the call     *)
(* returned), v is the value returned.                                     *)
(***************************************************************************)
EXTENDS Integers, Sequences, FiniteSets, TLC

VARIABLES semesters_data, view, out

vars == <<semesters_data, view, out>>

\* ------------------------------------------------------------------ bounds

\* Semesters the store of the interface holds at most.
MaxSemesters == 2
\* Course rows the store of the interface holds at most, over all semesters.
MaxCourses == 2
\* Semesters of an input record handed to the aggregation functions.
MaxInputSemesters == 2
\* Course entries of an input record, over all its semesters.
MaxInputRows == 2

\* ----------------------------------------------------------- Python values

\* Quarters per unit: the float x is held as the integer Quarter * x.
Quarter == 4

Num(n) == [k |-> "num", n |-> n, s |-> <<>>]
Str(s) == [k |-> "str", n |-> 0, s |-> s]
None == [k |-> "none", n |-> 0, s |-> <<>>]
Absent == [k |-> "absent", n |-> 0, s |-> <<>>]

Ret(v) == [exc |-> "", v |-> v]
Raise(e) == [exc |-> e, v |-> 0]

Keys == {"Course Name", "Credit Hours", "Grade Points"}

\* The dict {"Course Name": nm, "Credit Hours": ch, "Grade Points": gp}; a
\* field given as Absent is a key the dict does not have.
Course(nm, ch, gp) ==
    [dict |-> TRUE,
     f |-> ("Course Name" :> nm) @@ ("Credit Hours" :> ch) @@ ("Grade Points" :> gp)]

\* A list element that is no dict (a string, None, a number).
NotADict == [dict |-> FALSE, f |-> [key \in Keys |-> Absent]]

PyList(rows) == [islist |-> TRUE, rows |-> rows]
\* A value of the store that is no list.
NotAList == [islist |-> FALSE, rows |-> <<>>]

\* course.get(key, default); on an element that is no dict the attribute
\* lookup raises AttributeError, which the callers report through HasGet.
HasGet(course) == course.dict

DictGet(course, key, default) ==
    IF course.f[key].k = "absent" THEN default ELSE course.f[key]

Digits == {"0", "1", "2", "3", "4", "5", "6", "7", "8", "9"}

DigitValue(c) ==
    CASE c = "0" -> 0 [] c = "1" -> 1 [] c = "2" -> 2 [] c = "3" -> 3
      [] c = "4" -> 4 [] c = "5" -> 5 [] c = "6" -> 6 [] c = "7" -> 7
      [] c = "8" -> 8 [] OTHER -> 9

RECURSIVE LStrip(_)
LStrip(s) == IF s # <<>> /\ Head(s) = " " THEN LStrip(Tail(s)) ELSE s

RECURSIVE RStrip(_)
RStrip(s) ==
    IF s # <<>> /\ s[Len(s)] = " " THEN RStrip(SubSeq(s, 1, Len(s) - 1)) ELSE s

\* str.strip()
Strip(s) == RStrip(LStrip(s))

\* str(x): a string is itself, None is "None", a float prints its digits
\* (never empty, never blank; the model keeps its sign and its quarters).
PyStr(x) ==
    CASE x.k = "str" -> x.s
      [] x.k = "num" -> IF x.n < 0 THEN <<"-", "q">> ELSE <<"q">>
      [] OTHER -> <<"N", "o", "n", "e">>

\* bool(x), as `x or 0` tests it.
Truthy(x) ==
    CASE x.k = "num" -> x.n # 0
      [] x.k = "str" -> x.s # <<>>
      [] OTHER -> FALSE

\* x or 0
OrZero(x) == IF Truthy(x) THEN x ELSE Num(0)

RECURSIVE DecimalValue(_)
DecimalValue(s) ==
    IF s = <<>> THEN 0
    ELSE 10 * DecimalValue(SubSeq(s, 1, Len(s) - 1)) + DigitValue(s[Len(s)])

\* float(x): a float is itself; a string is parsed after stripping blanks
\* (the strings of the model hold blanks, letters and digits: a non-empty
\* run of digits is a number, anything else raises ValueError); None
\* raises TypeError.
Float(x) ==
    CASE x.k = "num" -> Ret(x.n)
      [] x.k = "str" ->
           LET t == Strip(x.s)
           IN  IF t # <<>> /\ \A i \in 1..Len(t) : t[i] \in Digits
               THEN Ret(Quarter * DecimalValue(t))
               ELSE Raise("ValueError")
      [] OTHER -> Raise("TypeError")

\* The exceptions `except (ValueError, TypeError)` catches.
Caught(r) == r.exc \in {"ValueError", "TypeError"}

\* --------------------------------------------------------------- rounding

Abs(x) == IF x < 0 THEN -x ELSE x

\* The integer nearest to num / den (den > 0), a tie going to the even one.
RoundHalfEven(num, den) ==
    LET a == Abs(num)
        q == a \div den
        r == a % den
        m == IF 2 * r > den THEN q + 1
             ELSE IF 2 * r < den THEN q
             ELSE IF q % 2 = 0 THEN q ELSE q + 1
    IN  IF num < 0 THEN -m ELSE m

\* Clamp without its lower end: min(x, 4.0).
ClampAboveOnly(x) == IF 4 * x.den < x.num THEN [num |-> 4, den |-> 1] ELSE x

\* max(0.0, min(x, 4.0)) of the quotient x = num / den (den > 0).
Clamp(x) ==
    LET lo == IF 4 * x.den < x.num THEN [num |-> 4, den |-> 1] ELSE x
    IN  IF lo.num > 0 THEN lo ELSE [num |-> 0, den |-> 1]

\* round(x, 2), in hundredths.
Round2(x) == RoundHalfEven(100 * x.num, x.den)

\* round(total, 1) of a float held in quarters, in tenths.
Round1(total) == RoundHalfEven(10 * total, Quarter)


\* ------------------------------------------------------ aggregation engine

\* One pass of calculate_gpa's loop body over `course`: the pair
\* <<credit hours added to total_credits, points added to total_points>>
\* (points are in sixteenths: quarters times quarters).
GpaTerm(course) ==
    IF ~course.dict THEN <<0, 0>>
    ELSE LET course_name == Strip(PyStr(DictGet(course, "Course Name", Str(<<>>))))
             credit_hours == Float(OrZero(DictGet(course, "Credit Hours", None)))
             grade_points == Float(OrZero(DictGet(course, "Grade Points", None)))
         IN  IF course_name = <<>> THEN <<0, 0>>
             ELSE IF Caught(credit_hours) \/ Caught(grade_points) THEN <<0, 0>>
             ELSE IF credit_hours.v > 0
                  THEN <<credit_hours.v, credit_hours.v * grade_points.v>>
                  ELSE <<0, 0>>

\* The loop of calculate_gpa from row i on, with the totals so far.
RECURSIVE GpaLoop(_, _, _)
GpaLoop(rows, i, totals) ==
    IF i > Len(rows) THEN totals
    ELSE LET t == GpaTerm(rows[i])
         IN  GpaLoop(rows, i + 1, <<totals[1] + t[1], totals[2] + t[2]>>)

\* The value both functions return from their totals.
Average(totals) ==
    IF totals[1] = 0 THEN 0
    ELSE Round2(Clamp([num |-> totals[2], den |-> Quarter * totals[1]]))

\* calculate_gpa(courses_list), in hundredths.
calculate_gpa(courses_list) ==
    IF ~courses_list.islist \/ courses_list.rows = <<>> THEN Ret(0)
    ELSE Ret(Average(GpaLoop(courses_list.rows, 1, <<0, 0>>)))

\* One pass of calculate_cgpa's inner loop body over `course`.
CgpaTerm(course) ==
    IF ~course.dict THEN <<0, 0>>
    ELSE LET course_name == Strip(PyStr(DictGet(course, "Course Name", Str(<<>>))))
             credit_hours == Float(OrZero(DictGet(course, "Credit Hours", None)))
             grade_points == Float(OrZero(DictGet(course, "Grade Points", None)))
         IN  IF course_name = <<>> THEN <<0, 0>>
             ELSE IF Caught(credit_hours) \/ Caught(grade_points) THEN <<0, 0>>
             ELSE IF credit_hours.v > 0
                  THEN <<credit_hours.v, credit_hours.v * grade_points.v>>
                  ELSE <<0, 0>>

\* The loops of calculate_cgpa from row i of semester k on.
RECURSIVE CgpaLoop(_, _, _, _)
CgpaLoop(data, k, i, totals) ==
    IF k > Len(data) THEN totals
    ELSE IF ~data[k].courses_list.islist \/ i > Len(data[k].courses_list.rows)
         THEN CgpaLoop(data, k + 1, 1, totals)
         ELSE LET t == CgpaTerm(data[k].courses_list.rows[i])
              IN  CgpaLoop(data, k, i + 1, <<totals[1] + t[1], totals[2] + t[2]>>)

\* The sum of calculate_gpa over the semesters from k on.
RECURSIVE SumOfGpas(_, _)
SumOfGpas(data, k) ==
    IF k > Len(data) THEN 0
    ELSE calculate_gpa(data[k].courses_list).v + SumOfGpas(data, k + 1)

\* calculate_cgpa as the mean of the per-semester GPAs.
MeanOfSemesterGpas(data) ==
    IF data = <<>> THEN Ret(0)
    ELSE Ret(RoundHalfEven(SumOfGpas(data, 1), Len(data)))

\* calculate_cgpa(semesters_data), in hundredths.
calculate_cgpa(data) ==
    IF data = <<>> THEN Ret(0)
    ELSE Ret(Average(CgpaLoop(data, 1, 1, <<0, 0>>)))

\* The loops of get_total_courses from row i of semester k on.
RECURSIVE CoursesLoop(_, _, _, _)
CoursesLoop(data, k, i, count) ==
    IF k > Len(data) THEN count
    ELSE IF ~data[k].courses_list.islist \/ i > Len(data[k].courses_list.rows)
         THEN CoursesLoop(data, k + 1, 1, count)
         ELSE LET course == data[k].courses_list.rows[i]
                  named == /\ course.dict
                           /\ Strip(PyStr(DictGet(course, "Course Name", Str(<<>>)))) # <<>>
              IN  CoursesLoop(data, k, i + 1, IF named THEN count + 1 ELSE count)

\* get_total_courses(), reading the store `data`.
get_total_courses(data) == Ret(CoursesLoop(data, 1, 1, 0))

\* The loops of get_total_credits from row i of semester k on; total is in
\* quarters.  course.get on an element that is no dict raises
\* AttributeError, which the except clause does not catch.
RECURSIVE CreditsLoop(_, _, _, _)
CreditsLoop(data, k, i, total) ==
    IF k > Len(data) THEN Ret(Round1(total))
    ELSE IF ~data[k].courses_list.islist \/ i > Len(data[k].courses_list.rows)
         THEN CreditsLoop(data, k + 1, 1, total)
         ELSE LET course == data[k].courses_list.rows[i]
                  credit_val == DictGet(course, "Credit Hours", Num(0))
                  credit == Float(IF credit_val.k = "none" THEN Num(0) ELSE credit_val)
              IN  IF ~HasGet(course) THEN Raise("AttributeError")
                  ELSE IF Strip(PyStr(DictGet(course, "Course Name", Str(<<>>)))) = <<>>
                       THEN CreditsLoop(data, k, i + 1, total)
                  ELSE IF Caught(credit) THEN CreditsLoop(data, k, i + 1, total)
                  ELSE CreditsLoop(data, k, i + 1, total + credit.v)

\* get_total_credits(), reading the store `data`, in tenths.
get_total_credits(data) == CreditsLoop(data, 1, 1, 0)

\* ------------------------------------------------------------ the store

\* {"Course Name": "", "Credit Hours": 0.0, "Grade Points": 0.0}
BlankCourse == Course(Str(<<>>), Num(0), Num(0))

\* list(semesters_data.keys())
sem_names(data) == [k \in 1..Len(data) |-> data[k].sem_name]

HasKey(data, name) == \E k \in 1..Len(data) : data[k].sem_name = name

\* semesters_data[name] = value: a key the dict holds keeps its place and
\* takes the new value, a new key goes last.
SetItem(data, name, value) ==
    IF HasKey(data, name)
    THEN LET k == CHOOSE k \in 1..Len(data) : data[k].sem_name = name
         IN  [data EXCEPT ![k].courses_list = value]
    ELSE Append(data, [sem_name |-> name, courses_list |-> value])

\* The delete as semesters_data.popitem(): the last semester goes.
DelLastItem(data, name) == SubSeq(data, 1, Len(data) - 1)

\* del semesters_data[name]
DelItem(data, name) == SelectSeq(data, LAMBDA e : e.sem_name # name)

\* The pop without its index, rows.pop(): the last row goes.
PopLast(rows, course_idx) == SubSeq(rows, 1, Len(rows) - 1)

\* rows after rows.pop(course_idx), course_idx counted from 0.
Pop(rows, course_idx) ==
    SubSeq(rows, 1, course_idx) \o SubSeq(rows, course_idx + 2, Len(rows))

RECURSIVE TotalRows(_)
TotalRows(data) ==
    IF data = <<>> THEN 0 ELSE Len(Head(data).courses_list.rows) + TotalRows(Tail(data))

\* ------------------------------------------------------- the render pass

\* What the user changed in the pass: the widget of field `key` of row
\* course_idx of semester sem_idx (both counted from 0) now holds `value`.
NoEdit == [sem_idx |-> -1, course_idx |-> -1, key |-> "", value |-> None]

\* The value a widget returns: what the user entered if this is the widget
\* edited in this pass, else the value= it was created with.
Widget(edit, sem_idx, course_idx, key, value) ==
    IF edit.sem_idx = sem_idx /\ edit.course_idx = course_idx /\ edit.key = key
    THEN edit.value
    ELSE value

\* The loop over enumerate(courses_list) from row course_idx on (counted
\* from 0), when no delete button of the semester is clicked:
\* courses_input gets one dict per row, built from the row's three widgets.
RECURSIVE InputLoop(_, _, _, _, _)
InputLoop(rows, sem_idx, course_idx, edit, courses_input) ==
    IF course_idx >= Len(rows) THEN courses_input
    ELSE LET course == rows[course_idx + 1]
             course_name == Widget(edit, sem_idx, course_idx, "Course Name",
                                   DictGet(course, "Course Name", Str(<<>>)))
             credit_hours == Widget(edit, sem_idx, course_idx, "Credit Hours",
                                    Num(Float(DictGet(course, "Credit Hours", Num(0))).v))
             grade_points == Widget(edit, sem_idx, course_idx, "Grade Points",
                                    Num(Float(DictGet(course, "Grade Points", Num(0))).v))
         IN  InputLoop(rows, sem_idx, course_idx + 1, edit,
                       Append(courses_input, Course(course_name, credit_hours, grade_points)))

\* sum(1 for c in courses_list if str(c.get("Course Name", "")).strip())
RECURSIVE CountNamed(_)
CountNamed(rows) ==
    IF rows = <<>> THEN 0
    ELSE (IF Strip(PyStr(DictGet(Head(rows), "Course Name", Str(<<>>)))) # <<>>
          THEN 1 ELSE 0) + CountNamed(Tail(rows))

\* sum(float(c.get("Credit Hours", 0) or 0) for c in courses_list if
\* str(c.get("Course Name", "")).strip()), in quarters.
RECURSIVE SumNamedCredits(_)
SumNamedCredits(rows) ==
    IF rows = <<>> THEN 0
    ELSE (IF Strip(PyStr(DictGet(Head(rows), "Course Name", Str(<<>>)))) # <<>>
          THEN Float(OrZero(DictGet(Head(rows), "Credit Hours", Num(0)))).v
          ELSE 0) + SumNamedCredits(Tail(rows))

\* The three figures shown for one semester: f"{gpa:.2f}" in hundredths,
\* the course count, f"{credits:.1f}" in tenths.
Stats(courses_list) ==
    [gpa |-> calculate_gpa(courses_list).v,
     courses |-> CountNamed(courses_list.rows),
     credits |-> Round1(SumNamedCredits(courses_list.rows))]

\* The loop over sem_names from semester sem_idx on (counted from 0), when
\* no button is clicked: each semester's list is read from the store as
\* courses_list, replaced in the store by its courses_input, and its panel
\* is computed from courses_list.  Yields the store and the panels shown.
RECURSIVE SemesterLoop(_, _, _, _)
SemesterLoop(data, sem_idx, edit, panel) ==
    IF sem_idx >= Len(data) THEN [data |-> data, panel |-> panel]
    ELSE LET sem_name == data[sem_idx + 1].sem_name
             courses_list == data[sem_idx + 1].courses_list
             written == PyList(InputLoop(courses_list.rows, sem_idx, 0, edit, <<>>))
         IN  SemesterLoop(SetItem(data, sem_name, written), sem_idx + 1, edit,
                          Append(panel, Stats(courses_list)))

\* The summary table: one line per semester of the store.
RECURSIVE SummaryLoop(_, _, _)
SummaryLoop(data, k, summary_data) ==
    IF k > Len(data) THEN summary_data
    ELSE SummaryLoop(data, k + 1, Append(summary_data, Stats(data[k].courses_list)))

\* A pass that runs to its end from store `data`: the store it leaves and
\* the figures it shows.
RenderPass(data, edit) ==
    LET looped == SemesterLoop(data, 0, edit, <<>>)
    IN  [data |-> looped.data,
         panel |-> looped.panel,
         summary |-> SummaryLoop(looped.data, 1, <<>>)]

\* The store when a pass with no widget edited reaches the panel of the
\* semester at position sem_idx: the semesters before it are written back.
PassUntil(data, sem_idx) ==
    SemesterLoop(SubSeq(data, 1, sem_idx), 0, NoEdit, <<>>).data
        \o SubSeq(data, sem_idx + 1, Len(data))

\* --------------------------------------------------------------- actions

\* What the user can enter into the widgets of a row.
NameChoices == {<<>>, <<"A">>}
CreditChoices == {0, 4}
GradeChoices == {0, 16}

InBounds(data) == Len(data) <= MaxSemesters /\ TotalRows(data) <= MaxCourses

\* The figures of the last pass, kept when the display is observed (view.on).
Shown(pass) ==
    IF view.on
    THEN [on |-> TRUE, panel |-> pass.panel, summary |-> pass.summary]
    ELSE view

\* A click ends its pass with st.rerun(): the script runs again from the
\* store the click left, with no widget edited.
Rerun(data) ==
    LET pass == RenderPass(data, NoEdit)
    IN  /\ semesters_data' = pass.data
        /\ view' = Shown(pass)
        /\ UNCHANGED out

\* The identifier "Semester N" the Add Semester handler creates.
NewSemesterName(data) == Len(data) + 1

AddSemester ==
    LET semester_num == NewSemesterName(semesters_data)
        after == SetItem(semesters_data, semester_num, PyList(<<BlankCourse>>))
    IN  /\ InBounds(after)
        /\ Rerun(after)

ResetAll ==
    /\ semesters_data # <<>>
    /\ Rerun(<<>>)

\* The click on the button with key del_{sem_idx}: the button exists only
\* for the semesters the loop over sem_names reaches.
DeleteSemester(sem_idx) ==
    IF sem_idx < Len(semesters_data)
    THEN LET sem_name == sem_names(semesters_data)[sem_idx + 1]
         IN  Rerun(DelItem(PassUntil(semesters_data, sem_idx), sem_name))
    ELSE Rerun(semesters_data)

\* The click on the button with key add_course_{sem_idx}, which follows the
\* write-back of its semester.
AddCourse(sem_idx) ==
    /\ sem_idx < Len(semesters_data)
    /\ LET sem_name == sem_names(semesters_data)[sem_idx + 1]
           written == PassUntil(semesters_data, sem_idx + 1)
           after == SetItem(written, sem_name,
                            PyList(Append(written[sem_idx + 1].courses_list.rows,
                                          BlankCourse)))
       IN  /\ InBounds(after)
           /\ Rerun(after)

\* The click on the button with key del_course_{sem_idx}_{course_idx}: the
\* button exists only for the rows enumerate(courses_list) reaches, and
\* courses_list is the list the store holds.
DeleteCourse(sem_idx, course_idx) ==
    IF /\ sem_idx < Len(semesters_data)
       /\ course_idx < Len(semesters_data[sem_idx + 1].courses_list.rows)
    THEN LET sem_name == sem_names(semesters_data)[sem_idx + 1]
             before == PassUntil(semesters_data, sem_idx)
             courses_list == before[sem_idx + 1].courses_list
         IN  Rerun(SetItem(before, sem_name, PyList(Pop(courses_list.rows, course_idx))))
    ELSE Rerun(semesters_data)

\* The user changes one widget of one row; the pass runs to its end.
EditCourse(sem_idx, course_idx, key, value) ==
    /\ sem_idx < Len(semesters_data)
    /\ course_idx < Len(semesters_data[sem_idx + 1].courses_list.rows)
    /\ semesters_data[sem_idx + 1].courses_list.rows[course_idx + 1].f[key] # value
    /\ LET edit == [sem_idx |-> sem_idx, course_idx |-> course_idx,
                    key |-> key, value |-> value]
           pass == RenderPass(semesters_data, edit)
       IN  /\ semesters_data' = pass.data
           /\ view' = Shown(pass)
    /\ UNCHANGED out

\* The rows of the semester at position sem_idx (none past the store's end).
RowsAt(sem_idx) ==
    IF sem_idx < Len(semesters_data)
    THEN semesters_data[sem_idx + 1].courses_list.rows
    ELSE <<>>

EditName ==
    \E sem_idx \in 0..Len(semesters_data) - 1 :
        \E course_idx \in 0..Len(RowsAt(sem_idx)) - 1, v \in NameChoices :
            EditCourse(sem_idx, course_idx, "Course Name", Str(v))

EditCredit ==
    \E sem_idx \in 0..Len(semesters_data) - 1 :
        \E course_idx \in 0..Len(RowsAt(sem_idx)) - 1, v \in CreditChoices :
            EditCourse(sem_idx, course_idx, "Credit Hours", Num(v))

EditGrade ==
    \E sem_idx \in 0..Len(semesters_data) - 1 :
        \E course_idx \in 0..Len(RowsAt(sem_idx)) - 1, v \in GradeChoices :
            EditCourse(sem_idx, course_idx, "Grade Points", Num(v))

\* A click may carry a position one past the end (a stale key).
ClickDeleteSemester == \E sem_idx \in 0..Len(semesters_data) : DeleteSemester(sem_idx)

ClickAddCourse == \E sem_idx \in 0..Len(semesters_data) - 1 : AddCourse(sem_idx)

ClickDeleteCourse ==
    \E sem_idx \in 0..Len(semesters_data) :
        \E course_idx \in 0..Len(RowsAt(sem_idx)) : DeleteCourse(sem_idx, course_idx)

\* What the four aggregation functions return on the record `data`.
Evaluate(data) ==
    [cgpa |-> calculate_cgpa(data),
     gpa |-> [k \in 1..Len(data) |-> calculate_gpa(data[k].courses_list)] \o <<>>,
     courses |-> get_total_courses(data),
     credits |-> get_total_credits(data)]

\* The display before the first pass; `on` says whether it is observed.
NoView(on) == [on |-> on, panel |-> <<>>, summary |-> <<>>]

Init ==
    /\ semesters_data = <<>>
    /\ view = NoView(FALSE)
    /\ out = Evaluate(<<>>)

Next ==
    \/ AddSemester
    \/ ResetAll
    \/ ClickDeleteSemester
    \/ ClickAddCourse
    \/ ClickDeleteCourse
    \/ EditName
    \/ EditCredit
    \/ EditGrade

\* The interface acting on the store.
Spec == Init /\ [][Next]_vars

InitView ==
    /\ semesters_data = <<>>
    /\ view = NoView(TRUE)
    /\ out = Evaluate(<<>>)

\* The interface acting on the store, with the figures of each pass observed.
SpecView == InitView /\ [][Next]_vars

\* ------------------------------------------- the functions on any record

\* The values a record handed to the functions may hold in each field, and
\* the entries it may hold: each entry differs in one field from a well
\* formed one, or is no dict at all.
InputNames == {Absent, None, Str(<<>>), Str(<<" ">>), Str(<<" ", "B", " ">>)}
InputCredits ==
    {Absent, None, Str(<<>>), Str(<<"a">>), Str(<<"3">>),
     Num(-4), Num(0), Num(1), Num(4)}
InputGrades == {Absent, None, Str(<<"a">>), Num(-4), Num(8), Num(15), Num(20)}

InputEntries ==
    {NotADict, Course(Str(<<"A">>), Num(12), Num(16))}
        \cup {Course(nm, Num(12), Num(16)) : nm \in InputNames}
        \cup {Course(Str(<<"A">>), ch, Num(16)) : ch \in InputCredits}
        \cup {Course(Str(<<"A">>), Num(4), gp) : gp \in InputGrades}

\* The record gets one more semester: an empty list, or a value that is no
\* list.
PutSemester(value) ==
    /\ Len(semesters_data) < MaxInputSemesters
    /\ semesters_data' = Append(semesters_data,
                                [sem_name |-> Len(semesters_data) + 1,
                                 courses_list |-> value])
    /\ out' = Evaluate(semesters_data')
    /\ UNCHANGED view

\* The list of semester k gets one more entry.
PutEntry(k, course) ==
    /\ k \in 1..Len(semesters_data)
    /\ semesters_data[k].courses_list.islist
    /\ TotalRows(semesters_data) < MaxInputRows
    /\ semesters_data' =
         [semesters_data EXCEPT ![k].courses_list.rows = Append(@, course)]
    /\ out' = Evaluate(semesters_data')
    /\ UNCHANGED view

PutList == PutSemester(PyList(<<>>))

PutNotAList == PutSemester(NotAList)

PutCourse == \E k \in 1..MaxInputSemesters, course \in InputEntries : PutEntry(k, course)

NextInput ==
    \/ PutList
    \/ PutNotAList
    \/ PutCourse

\* The aggregation functions applied to every record within the bounds.
SpecInput == Init /\ [][NextInput]_vars

\* ------------------------------------------------------------ properties

\* The entries of every list of the record, in iteration order.
RECURSIVE AllRows(_)
AllRows(data) ==
    IF data = <<>> THEN <<>>
    ELSE (IF Head(data).courses_list.islist THEN Head(data).courses_list.rows ELSE <<>>)
             \o AllRows(Tail(data))

\* A field as a number: its float, or 0 when it is absent or does not parse.
NumberOrZero(x) == IF Float(x).exc = "" THEN Float(x).v ELSE 0

\* The entry is a course record whose trimmed name is not empty.
Named(e) == e.dict /\ Strip(PyStr(DictGet(e, "Course Name", Str(<<>>)))) # <<>>

\* The entry is a named course record with credit hours above 0.
Qualifies(e) == Named(e) /\ NumberOrZero(e.f["Credit Hours"]) > 0

\* The grade points of the entry are absent or do not parse.
GradeMissing(e) == Float(e.f["Grade Points"]).exc # ""

CreditOf(e) == NumberOrZero(e.f["Credit Hours"])

PointsOf(e) == NumberOrZero(e.f["Credit Hours"]) * NumberOrZero(e.f["Grade Points"])

RECURSIVE SumCredits(_)
SumCredits(rows) ==
    IF rows = <<>> THEN 0 ELSE CreditOf(Head(rows)) + SumCredits(Tail(rows))

RECURSIVE SumPoints(_)
SumPoints(rows) ==
    IF rows = <<>> THEN 0 ELSE PointsOf(Head(rows)) + SumPoints(Tail(rows))

\* The average the specification gives for `rows`, in hundredths: 0 when no
\* row qualifies, else the clamped and rounded quotient of the qualifying
\* rows' points by their credit hours, a grade that is missing counting 0.
ExpectedGpa(rows) ==
    LET valid == SelectSeq(rows, Qualifies)
        credits == SumCredits(valid)
        points == SumPoints(valid)
    IN  IF valid = <<>> THEN 0
        ELSE IF 16 * credits < points THEN 400
        ELSE IF points < 0 THEN 0
        ELSE RoundHalfEven(25 * points, credits)

\* Python's round() and the rounding of the model agree on every average
\* the functions form: an average on a tie between two hundredths is a
\* binary fraction (a multiple of 1/8), which the float holds exactly.
TiesAreBinary ==
    \A k \in 0..Len(semesters_data) :
        LET totals == IF k = 0 THEN CgpaLoop(semesters_data, 1, 1, <<0, 0>>)
                      ELSE GpaLoop(semesters_data[k].courses_list.rows, 1, <<0, 0>>)
            x == Clamp([num |-> totals[2], den |-> Quarter * IF totals[1] = 0 THEN 1 ELSE totals[1]])
        IN  (200 * x.num) % x.den = 0 /\ ((200 * x.num) \div x.den) % 2 = 1
                => (8 * x.num) % x.den = 0

\* C1: Add Semester creates an identifier that is not a key of the record:
\* the number of semesters grows by one and every semester that existed
\* keeps its place and its course list.
AddSemesterKeepsEverySemester ==
    [][AddSemester =>
          /\ ~HasKey(semesters_data, NewSemesterName(semesters_data))
          /\ Len(semesters_data') = Len(semesters_data) + 1
          /\ SubSeq(semesters_data', 1, Len(semesters_data)) = semesters_data]_vars

\* C2: calculate_cgpa of a record is calculate_gpa of the concatenation of
\* the course lists of all its semesters.
CgpaIsGpaOfAllRows ==
    /\ out.cgpa = calculate_gpa(PyList(AllRows(semesters_data)))
    /\ calculate_cgpa(semesters_data) = calculate_gpa(PyList(AllRows(semesters_data)))

\* The mean of the averages of two semesters, in hundredths.
MeanOfGpas == (out.gpa[1].v + out.gpa[2].v) \div 2

\* C2 witness: a semester holding (A, 3 credits, 4.0) and a semester holding
\* (A, 1 credit, 2.0): the CGPA is 3.50 where the mean of the two GPAs is 3.00.
CgpaWeighsByCredits ==
    /\ Len(semesters_data) = 2
    /\ semesters_data[1].courses_list = PyList(<<Course(Str(<<"A">>), Num(12), Num(16))>>)
    /\ semesters_data[2].courses_list = PyList(<<Course(Str(<<"A">>), Num(4), Num(8))>>)
    /\ out.gpa = <<Ret(400), Ret(200)>>
    /\ MeanOfGpas = 300
    /\ out.cgpa = Ret(350)

InRange(r) == r.exc = "" /\ r.v \in 0..400

\* C3: the value calculate_gpa returns for each semester and the value
\* calculate_cgpa returns for the record lie in [0.0, 4.0], whatever the
\* grade points of the rows.
GpaWithinRange ==
    /\ \A k \in 1..Len(semesters_data) :
           InRange(calculate_gpa(semesters_data[k].courses_list))
    /\ InRange(calculate_cgpa(semesters_data))
    /\ \A k \in 1..Len(out.gpa) : InRange(out.gpa[k])
    /\ InRange(out.cgpa)

\* The quotient of the totals of `rows`, before it is clamped, is above 4.
RawAbove(rows) ==
    LET totals == GpaLoop(rows, 1, <<0, 0>>)
    IN  totals[1] > 0 /\ totals[2] > 16 * totals[1]

\* The quotient of the totals of `rows`, before it is clamped, is below 0.
RawBelow(rows) ==
    LET totals == GpaLoop(rows, 1, <<0, 0>>)
    IN  totals[1] > 0 /\ totals[2] < 0

\* C3 witness: one semester whose quotient is above 4 shows 4.00 and another
\* whose quotient is below 0 shows 0.00.
GpaClampedAtBothEnds ==
    \E k1, k2 \in 1..Len(semesters_data) :
        /\ semesters_data[k1].courses_list.islist
        /\ semesters_data[k2].courses_list.islist
        /\ RawAbove(semesters_data[k1].courses_list.rows)
        /\ out.gpa[k1] = Ret(400)
        /\ RawBelow(semesters_data[k2].courses_list.rows)
        /\ out.gpa[k2] = Ret(0)

\* C4: calculate_gpa sums exactly the rows with a non-empty trimmed name and
\* credit hours above 0: it returns 0.0 when no row qualifies, else the
\* clamped and rounded quotient of the qualifying rows' points by their
\* credit hours.
GpaSumsQualifyingRows ==
    \A k \in 1..Len(semesters_data) :
        out.gpa[k] = Ret(ExpectedGpa(semesters_data[k].courses_list.rows))

\* The grade points of the entry are a value float() does not parse.
GradeUnparsable(e) == Caught(Float(OrZero(e.f["Grade Points"])))

\* C4, on the lists no qualifying row of which has unparsable grade points
\* (the rows C6 fails on): there calculate_gpa is the expected average.
GpaSumsQualifyingRowsWithGrades ==
    \A k \in 1..Len(semesters_data) :
        LET rows == semesters_data[k].courses_list.rows
        IN  (\A i \in 1..Len(rows) : Qualifies(rows[i]) => ~GradeUnparsable(rows[i]))
                => out.gpa[k] = Ret(ExpectedGpa(rows))

\* C5: calculate_gpa, calculate_cgpa, get_total_courses and
\* get_total_credits return a number on every record and never raise.
FunctionsNeverRaise ==
    /\ out.cgpa.exc = ""
    /\ \A k \in 1..Len(out.gpa) : out.gpa[k].exc = ""
    /\ out.courses.exc = ""
    /\ out.credits.exc = ""

\* `rows` with the grade points of row i set to 0.
WithGradeZero(rows, i) == [rows EXCEPT ![i].f["Grade Points"] = Num(0)]

\* C6: a row with a non-empty name and credit hours above 0 whose grade
\* points are absent or do not parse is summed with grade points 0:
\* calculate_gpa and calculate_cgpa return what they return with the grade
\* points of that row set to 0.
MissingGradeCountsAsZero ==
    \A k \in 1..Len(semesters_data) :
        LET rows == semesters_data[k].courses_list.rows
        IN  \A i \in 1..Len(rows) :
                Qualifies(rows[i]) /\ GradeMissing(rows[i]) =>
                    /\ out.gpa[k] = calculate_gpa(PyList(WithGradeZero(rows, i)))
                    /\ out.cgpa = calculate_cgpa(
                          [semesters_data EXCEPT ![k].courses_list.rows = WithGradeZero(rows, i)])

\* C7: get_total_courses returns the number of rows with a non-empty
\* trimmed name, whatever their credit hours, and get_total_credits returns
\* the sum of the credit hours of those rows rounded to one decimal.
CountersRangeOverNamedRows ==
    LET named == SelectSeq(AllRows(semesters_data), Named)
    IN  /\ out.courses = Ret(Len(named))
        /\ out.credits = Ret(RoundHalfEven(10 * SumCredits(named), Quarter))

\* C7, on the records every entry of which is a mapping (the others are
\* what C5 is about): there both counters range over the named rows.
CountersRangeOverNamedRowsOfDicts ==
    (\A i \in 1..Len(AllRows(semesters_data)) : AllRows(semesters_data)[i].dict)
        => CountersRangeOverNamedRows

\* C8: Delete Semester removes the semester at the clicked position with
\* its course list and leaves every other semester, its identifier, its
\* place among the others and its course list, unchanged; a click on a
\* position the record does not hold leaves the record unchanged.
DeleteSemesterRemovesOnlyThatSemester ==
    [][\A sem_idx \in 0..Len(semesters_data) :
          DeleteSemester(sem_idx) =>
              IF sem_idx < Len(semesters_data)
              THEN /\ Len(semesters_data') = Len(semesters_data) - 1
                   /\ ~HasKey(semesters_data', semesters_data[sem_idx + 1].sem_name)
                   /\ \A k \in 1..Len(semesters_data') :
                          semesters_data'[k] = semesters_data[IF k <= sem_idx THEN k ELSE k + 1]
              ELSE semesters_data' = semesters_data]_vars

\* C8 witness: only "Semester 2" is left, which is the record after
\* "Semester 1" was deleted from beside it, and it still holds a named row.
SemesterDeletedOtherKept ==
    /\ sem_names(semesters_data) = <<2>>
    /\ Len(semesters_data[1].courses_list.rows) = 1
    /\ Named(semesters_data[1].courses_list.rows[1])

PanelShowsStoredCourses ==
    [][EditName \/ EditCredit \/ EditGrade => view'.panel = view'.summary]_vars

=============================================================================
